---------------------------- MODULE Spec2Model ----------------------------
(***************************************************************************)
(* T-tetromino puzzle: placement validation, rotation-to-offset lookup and *)
(* linear undo/redo history, as implemented by the four React components   *)
(* of the repository:                                                      *)
(*   "Gated"     PuzzleGame of src/unnamed/part_000 (size prop, 8x8 board) *)
(*   "AppFirst"  first  App of src/src/App.tsx   (lines 105-253)           *)
(*   "AppSecond" second App of src/src/App.tsx   (lines 331-479)           *)
(*   "Plain"     App of src/unnamed/part_001     (no rotation)             *)
(* Each component keeps grid, history, currentStep (and currentRotation)   *)
(* in useState; every handler reads the values of the last render and      *)
(* writes the new ones with one batch of setters.                          *)
(***************************************************************************)
EXTENDS Integers, Sequences, FiniteSets

VARIABLES
    variant,          \* which component is mounted (fixed for a session)
    grid,             \* useState<Grid>: the displayed board
    history,          \* useState<Grid[]>: the snapshots (index 0 is history[1] here)
    currentStep,      \* useState(0): the cursor, a 0-based index into history
    currentRotation,  \* useState<Rotation>(0)
    password,         \* App of part_000, useState(''): the text of the password field
    isUnlocked,       \* App of part_000, useState(false): the second board is rendered
    error,            \* App of part_000, useState(''): the message under the field
    lastEvent         \* history variable: the handler that ran last, its outcome, and
                      \* the cursor and the history length it started from

vars == <<variant, grid, history, currentStep, currentRotation,
          password, isUnlocked, error, lastEvent>>

---------------------------------------------------------------------------
(* Bounds of the exploration *)

\* clicks are dispatched on the first MaxClick cells of ClickOrder
MaxClick == 3

---------------------------------------------------------------------------
(* Types *)

\* <PuzzleGame size={8} />, and the literal 8 of the other components
size == 8

NULL == "null"
T == "T"
\* what JavaScript yields for an array index that does not exist
UNDEFINED == "undefined"
\* reading a property of undefined (grid[r] with r outside the rows) throws
TYPE_ERROR == "TypeError"

Rotation == {0, 90, 180, 270}

Variants == {"Gated", "AppFirst", "AppSecond", "Plain"}
RotationAware == {"Gated", "AppFirst", "AppSecond"}

Index == 0 .. (size - 1)

\* Array(size).fill(null).map(() => Array(size).fill(null))
emptyGrid == [r \in Index |-> [c \in Index |-> NULL]]

\* grid[r][c] as JavaScript evaluates it
At(g, r, c) ==
    IF r \notin DOMAIN g THEN TYPE_ERROR
    ELSE IF c \notin DOMAIN g[r] THEN UNDEFINED
    ELSE g[r][c]

\* !x for a cell value
Not(x) == x \in {NULL, UNDEFINED}

\* history[i] for an index outside the array is undefined: no rows, so that
\* reading a cell of it is a TypeError
NoGrid == << >>

\* history[i], 0-based
Snapshot(h, i) == IF (i + 1) \in DOMAIN h THEN h[i + 1] ELSE NoGrid

\* history.slice(0, end)
slice(h, end) == SubSeq(h, 1, end)

---------------------------------------------------------------------------
(* Shape geometry *)

\* getTetrominoCells with the tables of rotations 0 and 180 exchanged
getTetrominoCells_swapped(row, col, rotation) ==
    CASE rotation = 0   -> << <<row, col>>, <<row + 1, col>>, <<row + 1, col - 1>>, <<row + 1, col + 1>> >>
      [] rotation = 90  -> << <<row, col>>, <<row - 1, col>>, <<row + 1, col>>, <<row, col - 1>> >>
      [] rotation = 180 -> << <<row + 1, col>>, <<row, col>>, <<row, col - 1>>, <<row, col + 1>> >>
      [] rotation = 270 -> << <<row, col>>, <<row - 1, col>>, <<row + 1, col>>, <<row, col + 1>> >>

\* getTetrominoCells whose case 270 is a copy of case 90 (col - 1 left in place)
getTetrominoCells_copiedCase(row, col, rotation) ==
    CASE rotation = 0   -> << <<row + 1, col>>, <<row, col>>, <<row, col - 1>>, <<row, col + 1>> >>
      [] rotation = 90  -> << <<row, col>>, <<row - 1, col>>, <<row + 1, col>>, <<row, col - 1>> >>
      [] rotation = 180 -> << <<row, col>>, <<row + 1, col>>, <<row + 1, col - 1>>, <<row + 1, col + 1>> >>
      [] rotation = 270 -> << <<row, col>>, <<row - 1, col>>, <<row + 1, col>>, <<row, col - 1>> >>

\* part_000 PuzzleGame
getTetrominoCells(row, col, rotation) ==
    CASE rotation = 0   -> << <<row + 1, col>>, <<row, col>>, <<row, col - 1>>, <<row, col + 1>> >>
      [] rotation = 90  -> << <<row, col>>, <<row - 1, col>>, <<row + 1, col>>, <<row, col - 1>> >>
      [] rotation = 180 -> << <<row, col>>, <<row + 1, col>>, <<row + 1, col - 1>>, <<row + 1, col + 1>> >>
      [] rotation = 270 -> << <<row, col>>, <<row - 1, col>>, <<row + 1, col>>, <<row, col + 1>> >>

\* App.tsx, first component
getTetrominoCellsAppFirst(row, col, rotation) ==
    CASE rotation = 0   -> << <<row + 1, col>>, <<row, col>>, <<row, col - 1>>, <<row, col + 1>> >>
      [] rotation = 90  -> << <<row, col>>, <<row - 1, col>>, <<row + 1, col>>, <<row, col - 1>> >>
      [] rotation = 180 -> << <<row, col>>, <<row + 1, col>>, <<row + 1, col - 1>>, <<row + 1, col + 1>> >>
      [] rotation = 270 -> << <<row, col>>, <<row - 1, col>>, <<row + 1, col>>, <<row, col + 1>> >>

\* the second component's table with the arm of case 90 on the other side
getTetrominoCellsAppSecond_mirrored90(row, col, rotation) ==
    CASE rotation = 0   -> << <<row, col>>, <<row + 1, col>>, <<row + 1, col - 1>>, <<row + 1, col + 1>> >>
      [] rotation = 90  -> << <<row, col>>, <<row - 1, col>>, <<row + 1, col>>, <<row, col + 1>> >>
      [] rotation = 180 -> << <<row + 1, col>>, <<row, col>>, <<row, col - 1>>, <<row, col + 1>> >>
      [] rotation = 270 -> << <<row, col>>, <<row - 1, col>>, <<row + 1, col>>, <<row, col + 1>> >>

\* App.tsx, second component: the tables of 0 and 180 are exchanged
getTetrominoCellsAppSecond(row, col, rotation) ==
    CASE rotation = 0   -> << <<row, col>>, <<row + 1, col>>, <<row + 1, col - 1>>, <<row + 1, col + 1>> >>
      [] rotation = 90  -> << <<row, col>>, <<row - 1, col>>, <<row + 1, col>>, <<row, col - 1>> >>
      [] rotation = 180 -> << <<row + 1, col>>, <<row, col>>, <<row, col - 1>>, <<row, col + 1>> >>
      [] rotation = 270 -> << <<row, col>>, <<row - 1, col>>, <<row + 1, col>>, <<row, col + 1>> >>

\* part_001: the four cells placeTetromino marks, in the order it marks them
plainCells(row, col) ==
    << <<row, col>>, <<row + 1, col>>, <<row + 1, col - 1>>, <<row + 1, col + 1>> >>

\* the cells a placement of component v resolves to
Cells(v, row, col, rotation) ==
    CASE v = "Gated"     -> getTetrominoCells(row, col, rotation)
      [] v = "AppFirst"  -> getTetrominoCellsAppFirst(row, col, rotation)
      [] v = "AppSecond" -> getTetrominoCellsAppSecond(row, col, rotation)
      [] v = "Plain"     -> plainCells(row, col)

CellSet(cells) == {cells[i] : i \in DOMAIN cells}

---------------------------------------------------------------------------
(* Placement validator *)

\* inRange with the upper column test off by one: c <= size
inRange_offByOne(cell) ==
    /\ cell[1] >= 0
    /\ cell[1] < size
    /\ cell[2] >= 0
    /\ cell[2] <= size

\* r >= 0 && r < size && c >= 0 && c < size
inRange(cell) ==
    /\ cell[1] >= 0
    /\ cell[1] < size
    /\ cell[2] >= 0
    /\ cell[2] < size

\* r >= 0 && r < size && c >= 0 && c < size && !grid[r][c]
cellOk(g, cell) ==
    /\ inRange(cell)
    /\ Not(At(g, cell[1], cell[2]))

\* cells.every(test): stops at the first cell that fails
RECURSIVE every(_, _)
every(g, cells) ==
    IF cells = << >> THEN TRUE
    ELSE IF ~cellOk(g, Head(cells)) THEN FALSE
    ELSE every(g, Tail(cells))

\* the index pairs at which cells.every(test) evaluates grid[r][c]: a cell is
\* read only after its four comparisons passed, and no cell after a failing one
RECURSIVE everyReads(_, _)
everyReads(g, cells) ==
    IF cells = << >> THEN {}
    ELSE LET cell == Head(cells)
         IN  IF ~inRange(cell) THEN {}
             ELSE {cell} \cup (IF cellOk(g, cell) THEN everyReads(g, Tail(cells)) ELSE {})

\* part_000 PuzzleGame
isValidPlacement(g, row, col, rotation) ==
    every(g, getTetrominoCells(row, col, rotation))

\* App.tsx, first component
isValidPlacementAppFirst(g, row, col, rotation) ==
    every(g, getTetrominoCellsAppFirst(row, col, rotation))

\* App.tsx, second component
isValidPlacementAppSecond(g, row, col, rotation) ==
    every(g, getTetrominoCellsAppSecond(row, col, rotation))

\* part_001: hand-written bounds, the column test comes after the reads
\* the hand-written validator without its two column tests: grid[row + 1][-1]
\* and grid[row + 1][8] are undefined, which !x reads as empty
isValidPlacementPlain_noColumnTest(g, row, col) ==
    IF row < 0 \/ row >= 7 \/ col < 0 \/ col >= 8 THEN FALSE
    ELSE /\ Not(At(g, row, col))
         /\ Not(At(g, row + 1, col))
         /\ Not(At(g, row + 1, col - 1))
         /\ Not(At(g, row + 1, col + 1))

isValidPlacementPlain(g, row, col) ==
    IF row < 0 \/ row >= 7 \/ col < 0 \/ col >= 8 THEN FALSE
    ELSE /\ Not(At(g, row, col))
         /\ Not(At(g, row + 1, col))
         /\ Not(At(g, row + 1, col - 1))
         /\ Not(At(g, row + 1, col + 1))
         /\ col > 0
         /\ col < 7

\* the validator of component v
Valid(v, g, row, col, rotation) ==
    CASE v = "Gated"     -> isValidPlacement(g, row, col, rotation)
      [] v = "AppFirst"  -> isValidPlacementAppFirst(g, row, col, rotation)
      [] v = "AppSecond" -> isValidPlacementAppSecond(g, row, col, rotation)
      [] v = "Plain"     -> isValidPlacementPlain(g, row, col)

---------------------------------------------------------------------------
(* Handlers, as functions of the state of the last render *)

\* the state a handler closes over
State == [grid |-> grid, history |-> history, currentStep |-> currentStep,
          currentRotation |-> currentRotation]

\* forEachMark that stops one cell early
RECURSIVE forEachMark_dropsLast(_, _)
forEachMark_dropsLast(newGrid, cells) ==
    IF Len(cells) <= 1 THEN newGrid
    ELSE LET r == Head(cells)[1]
             c == Head(cells)[2]
         IN  forEachMark_dropsLast([newGrid EXCEPT ![r][c] = T], Tail(cells))

\* cells.forEach(([r, c]) => { newGrid[r][c] = 'T' }) on the copy grid.map(row => [...row])
RECURSIVE forEachMark(_, _)
forEachMark(newGrid, cells) ==
    IF cells = << >> THEN newGrid
    ELSE LET r == Head(cells)[1]
             c == Head(cells)[2]
         IN  forEachMark([newGrid EXCEPT ![r][c] = T], Tail(cells))

\* placeTetromino that records a snapshot for a rejected placement too
placeTetromino_recordsRejected(v, s, row, col) ==
    LET newGrid == IF Valid(v, s.grid, row, col, s.currentRotation)
                   THEN forEachMark(s.grid, Cells(v, row, col, s.currentRotation))
                   ELSE s.grid
        newHistory == Append(slice(s.history, s.currentStep + 1), newGrid)
    IN  [s EXCEPT !.grid = newGrid,
                  !.history = newHistory,
                  !.currentStep = s.currentStep + 1]

\* placeTetromino that pushes onto the whole history: history.slice is missing
placeTetromino_keepsRedoTail(v, s, row, col) ==
    IF ~Valid(v, s.grid, row, col, s.currentRotation) THEN s
    ELSE LET newGrid == forEachMark(s.grid, Cells(v, row, col, s.currentRotation))
             newHistory == Append(s.history, newGrid)
         IN  [s EXCEPT !.grid = newGrid,
                       !.history = newHistory,
                       !.currentStep = s.currentStep + 1]

\* placeTetromino without grid.map(row => [...row]): the marks are written into
\* the displayed board, which is the very array stored as history[currentStep]
placeTetromino_mutatesInPlace(v, s, row, col) ==
    IF ~Valid(v, s.grid, row, col, s.currentRotation) THEN s
    ELSE LET newGrid == forEachMark(s.grid, Cells(v, row, col, s.currentRotation))
             aliased == [i \in DOMAIN s.history |->
                             IF i = s.currentStep + 1 THEN newGrid ELSE s.history[i]]
             newHistory == Append(slice(aliased, s.currentStep + 1), newGrid)
         IN  [s EXCEPT !.grid = newGrid,
                       !.history = newHistory,
                       !.currentStep = s.currentStep + 1]

\* placeTetromino that pushes grid, the board of the current render, instead
\* of newGrid
placeTetromino_pushesOldGrid(v, s, row, col) ==
    IF ~Valid(v, s.grid, row, col, s.currentRotation) THEN s
    ELSE LET newGrid == forEachMark(s.grid, Cells(v, row, col, s.currentRotation))
             newHistory == Append(slice(s.history, s.currentStep + 1), s.grid)
         IN  [s EXCEPT !.grid = newGrid,
                       !.history = newHistory,
                       !.currentStep = s.currentStep + 1]

placeTetromino(v, s, row, col) ==
    IF ~Valid(v, s.grid, row, col, s.currentRotation) THEN s
    ELSE LET newGrid == forEachMark(s.grid, Cells(v, row, col, s.currentRotation))
             newHistory == Append(slice(s.history, s.currentStep + 1), newGrid)
         IN  [s EXCEPT !.grid = newGrid,
                       !.history = newHistory,
                       !.currentStep = s.currentStep + 1]

\* undo without its setGrid: the cursor moves, the board stays
undo_staleGrid(s) ==
    IF s.currentStep > 0
    THEN [s EXCEPT !.currentStep = s.currentStep - 1]
    ELSE s

\* undo guarded by currentStep >= 0
undo_guardOffByOne(s) ==
    IF s.currentStep >= 0
    THEN [s EXCEPT !.currentStep = s.currentStep - 1,
                   !.grid = Snapshot(s.history, s.currentStep - 1)]
    ELSE s

\* undo that also drops the snapshots above the new cursor
undo_popsSnapshot(s) ==
    IF s.currentStep > 0
    THEN [s EXCEPT !.currentStep = s.currentStep - 1,
                   !.grid = Snapshot(s.history, s.currentStep - 1),
                   !.history = slice(s.history, s.currentStep)]
    ELSE s

undo(s) ==
    IF s.currentStep > 0
    THEN [s EXCEPT !.currentStep = s.currentStep - 1,
                   !.grid = Snapshot(s.history, s.currentStep - 1)]
    ELSE s

\* redo that shows history[currentStep], the snapshot of the old cursor
redo_staleSnapshot(s) ==
    IF s.currentStep < Len(s.history) - 1
    THEN [s EXCEPT !.currentStep = s.currentStep + 1,
                   !.grid = Snapshot(s.history, s.currentStep)]
    ELSE s

\* redo guarded by currentStep < history.length
redo_guardOffByOne(s) ==
    IF s.currentStep < Len(s.history)
    THEN [s EXCEPT !.currentStep = s.currentStep + 1,
                   !.grid = Snapshot(s.history, s.currentStep + 1)]
    ELSE s

redo(s) ==
    IF s.currentStep < Len(s.history) - 1
    THEN [s EXCEPT !.currentStep = s.currentStep + 1,
                   !.grid = Snapshot(s.history, s.currentStep + 1)]
    ELSE s

\* <Button onClick={undo} disabled={currentStep === 0}>
undoDisabled(s) == s.currentStep = 0

\* a Redo button disabled by currentStep === history.length
redoDisabled_offByOne(s) == s.currentStep = Len(s.history)

\* <Button onClick={redo} disabled={currentStep === history.length - 1}>
redoDisabled(s) == s.currentStep = Len(s.history) - 1

\* reset without its setHistory
reset_keepsHistory(s) ==
    [s EXCEPT !.grid = emptyGrid,
              !.currentStep = 0]

\* reset without its setCurrentStep
reset_keepsStep(s) ==
    [s EXCEPT !.grid = emptyGrid,
              !.history = <<emptyGrid>>]

reset(s) ==
    [s EXCEPT !.grid = emptyGrid,
              !.history = <<emptyGrid>>,
              !.currentStep = 0]

\* rotateShape that turns the shape a quarter further and ignores its argument
rotateShape_advances(s, rotation) ==
    [s EXCEPT !.currentRotation = (s.currentRotation + 90) % 360]

rotateShape(s, rotation) ==
    [s EXCEPT !.currentRotation = rotation]

---------------------------------------------------------------------------
(* The password gate: App of part_000 *)

\* the literal '1618' of handlePasswordSubmit; a text is the sequence of its characters
Secret == << "1", "6", "1", "8" >>

\* <PasswordInput maxLength={4} />
maxLength == 4

\* the values App holds in one render
AppState == [password |-> password, isUnlocked |-> isUnlocked, error |-> error]

\* handlePasswordSubmit that compares the length of the entry only
handlePasswordSubmit_anyFourChars(a) ==
    IF Len(a.password) = Len(Secret)
    THEN [a EXCEPT !.isUnlocked = TRUE, !.error = ""]
    ELSE [a EXCEPT !.error = "Incorrect password"]

\* handlePasswordSubmit without setError('') in the accepting branch
handlePasswordSubmit_keepsError(a) ==
    IF a.password = Secret
    THEN [a EXCEPT !.isUnlocked = TRUE]
    ELSE [a EXCEPT !.error = "Incorrect password"]

handlePasswordSubmit(a) ==
    IF a.password = Secret
    THEN [a EXCEPT !.isUnlocked = TRUE, !.error = ""]
    ELSE [a EXCEPT !.error = "Incorrect password"]

\* onChange={(e) => setPassword(e.target.value)}
setPassword(a, value) == [a EXCEPT !.password = value]

---------------------------------------------------------------------------
(* The session *)

\* one re-render with the values the handler set
Render(s) ==
    /\ grid' = s.grid
    /\ history' = s.history
    /\ currentStep' = s.currentStep
    /\ currentRotation' = s.currentRotation
    /\ UNCHANGED <<variant, password, isUnlocked, error>>

\* what lastEvent records of a handler run
Event(op) ==
    [op |-> op, step |-> currentStep, len |-> Len(history),
     follows |-> IF op \in {"redo", "redoNoop"} /\ lastEvent.op \in {"undo", "placed"}
                 THEN lastEvent.op
                 ELSE IF op = "unlocked" /\ error # "" THEN "refused" ELSE "-",
     chain |-> IF op = "undo" /\ lastEvent.op = "placed" THEN "place-undo"
               ELSE IF op = "redo" /\ lastEvent.op = "undo" /\ lastEvent.chain = "place-undo"
                    THEN "place-undo-redo" ELSE "-"]

Init ==
    /\ variant \in Variants
    /\ grid = emptyGrid
    /\ history = <<emptyGrid>>
    /\ currentStep = 0
    /\ currentRotation = 0
    /\ password = << >>
    /\ isUnlocked = FALSE
    /\ error = ""
    /\ lastEvent = [op |-> "mount", step |-> 0, len |-> 1, follows |-> "-", chain |-> "-"]

\* one re-render of App with the values the handler set; the 8x8 PuzzleGame
\* keeps its own state
RenderApp(a) ==
    /\ password' = a.password
    /\ isUnlocked' = a.isUnlocked
    /\ error' = a.error
    /\ UNCHANGED <<variant, grid, history, currentStep, currentRotation>>

\* the cells that are clicked, in the order the bound admits them: the anchor of
\* the documented scenario (on the top edge), an inner cell and the corner at
\* the far side of the board, then the inner cell next to the first anchor
ClickOrder ==
    << <<0, 1>>, <<6, 6>>, <<7, 7>>, <<1, 1>>, <<0, 0>> >>

ClickCells == {ClickOrder[i] : i \in 1 .. MaxClick}

\* onClick of the cell (row, col)
Place(row, col) ==
    LET s == placeTetromino(variant, State, row, col)
    IN  /\ Render(s)
        /\ lastEvent' = Event(IF s # State THEN "placed" ELSE "rejected")

\* onClick of Undo
Undo ==
    /\ Render(undo(State))
    /\ lastEvent' = Event(IF currentStep > 0 THEN "undo" ELSE "undoNoop")

\* onClick of Redo
Redo ==
    /\ Render(redo(State))
    /\ lastEvent' = Event(IF currentStep < Len(history) - 1 THEN "redo" ELSE "redoNoop")

\* onClick of Reset
Reset ==
    /\ Render(reset(State))
    /\ lastEvent' = Event("reset")

\* onClick of a rotation button
RotateShape(rotation) ==
    /\ variant \in RotationAware
    /\ Render(rotateShape(State, rotation))
    /\ lastEvent' = Event("rotate")

Next ==
    \/ \E cell \in ClickCells : Place(cell[1], cell[2])
    \/ Undo
    \/ Redo
    \/ Reset
    \/ \E rotation \in Rotation : RotateShape(rotation)

Spec == Init /\ [][Next]_vars

\* the texts that are entered in the password field: nothing, a prefix of the
\* secret, the secret, two other four-character texts, and a text the field
\* is too short for
PasswordInputs ==
    { << >>, << "1", "6", "1" >>, Secret, << "1", "6", "1", "9" >>,
      << "8", "1", "6", "1" >>, << "1", "6", "1", "8", "0" >> }

\* onChange of the password field, rendered while the gate is locked
SetPassword(value) ==
    /\ variant = "Gated"
    /\ ~isUnlocked
    /\ Len(value) <= maxLength
    /\ RenderApp(setPassword(AppState, value))
    /\ lastEvent' = Event("typed")

\* onClick of Unlock, rendered while the gate is locked
HandlePasswordSubmit ==
    /\ variant = "Gated"
    /\ ~isUnlocked
    /\ RenderApp(handlePasswordSubmit(AppState))
    /\ lastEvent' = Event(IF password = Secret THEN "unlocked" ELSE "refused")

\* the gated component: the 8x8 game and the gate next to it
InitGate == Init /\ variant = "Gated"

NextGate ==
    \/ Next
    \/ \E value \in PasswordInputs : SetPassword(value)
    \/ HandlePasswordSubmit

SpecGate == InitGate /\ [][NextGate]_vars

\* the boards and rotations the validator is applied to: the session without
\* the history buttons
NextBoards ==
    \/ \E cell \in ClickCells : Place(cell[1], cell[2])
    \/ \E rotation \in Rotation : RotateShape(rotation)

SpecBoards == Init /\ [][NextBoards]_vars

\* rotations 0 and 180 exchanged, 90 and 270 kept: the rotation button of the
\* second component of App.tsx that selects the shape the other components
\* select with `rotation`
Exchanged(rotation) ==
    CASE rotation = 0   -> 180
      [] rotation = 180 -> 0
      [] OTHER          -> rotation

\* four pieces <<row, col, rotation>> (rotations of part_000) that cover a
\* 4x4 block:    A A A B
\*               C A B B
\*               C C D B
\*               C D D D
TilingBlock ==
    << <<0, 1, 0>>, <<1, 3, 90>>, <<2, 0, 270>>, <<2, 2, 180>> >>

\* the block repeated over the four quarters of the board: size * size / 4
\* pieces that cover it
Tiling ==
    [i \in 1 .. ((size * size) \div 4) |->
        LET b == TilingBlock[((i - 1) % 4) + 1]
            q == (i - 1) \div 4
        IN  << b[1] + (size \div 2) * (q \div 2), b[2] + (size \div 2) * (q % 2), b[3] >>]

\* the rotation-less component has the one shape: pieces side by side, two to a
\* pair of rows
PlainPacking ==
    [i \in 1 .. size |->
        << 2 * ((i - 1) \div 2), 1 + 3 * ((i - 1) % 2), 0 >>]

\* the clicks of a user who fills the board piece by piece
Script(v) == IF v = "Plain" THEN PlainPacking ELSE Tiling

\* onClick of the cell the next piece of the script is anchored at, once the
\* rotation buttons show that piece's rotation
ClickScript ==
    /\ currentStep < Len(Script(variant))
    /\ LET t == Script(variant)[currentStep + 1]
       IN  /\ variant \in RotationAware =>
                  currentRotation = (IF variant = "AppSecond" THEN Exchanged(t[3]) ELSE t[3])
           /\ Place(t[1], t[2])

\* a session in which the board is filled: the scripted clicks and every button
NextFill ==
    \/ ClickScript
    \/ Undo
    \/ Redo
    \/ Reset
    \/ \E rotation \in Rotation : RotateShape(rotation)

SpecFill == Init /\ [][NextFill]_vars

---------------------------------------------------------------------------
(* Vocabulary of the properties *)

Board == Index \X Index

\* a board of the right size whose cells are Empty or Occupied
IsBoard(g) ==
    /\ DOMAIN g = Index
    /\ \A r \in Index : DOMAIN g[r] = Index /\ \A c \in Index : g[r][c] \in {NULL, T}

AllEmpty(g) == IsBoard(g) /\ \A cell \in Board : g[cell[1]][cell[2]] = NULL

Occupied(g) == {cell \in Board : g[cell[1]][cell[2]] = T}

\* the cells in which two boards differ (rows are compared first)
Changed(g1, g2) ==
    {cell \in {r \in Index : g1[r] # g2[r]} \X Index : g1[cell[1]][cell[2]] # g2[cell[1]][cell[2]]}

\* the placement validator of the mounted component accepts (row, col) now
Accepts(row, col) == Valid(variant, grid, row, col, currentRotation)

\* the state after a click on (row, col)
Placed(row, col) == placeTetromino(variant, State, row, col)

---------------------------------------------------------------------------
(* C1 *)

\* C1: in every reachable state and for every anchor on the board, a placement
\* the validator rejects leaves the displayed board, the history and the cursor
\* as they were: nothing is marked and no snapshot is appended.
C1_RejectedPlaceChangesNothing ==
    \A cell \in Board :
        ~Accepts(cell[1], cell[2]) =>
            LET s == Placed(cell[1], cell[2])
            IN  /\ s.grid = grid
                /\ s.history = history
                /\ s.currentStep = currentStep

\* a rejected click has been handled on a board that holds a piece, with
\* snapshots on both sides of the cursor
C1_Witness ==
    /\ lastEvent.op = "rejected"
    /\ currentStep = 1
    /\ Len(history) = 3
    /\ Occupied(grid) # {}

---------------------------------------------------------------------------
(* C2 *)

\* C2: in every reachable state, an accepted placement changes exactly four
\* cells of the displayed board: the four cells of the shape geometry for the
\* anchor and the current rotation, each Empty before and Occupied after; all
\* other cells keep their value.
C2_AcceptedPlaceMarksFourCells ==
    \A cell \in Board :
        Accepts(cell[1], cell[2]) =>
            LET s == Placed(cell[1], cell[2])
                shape == CellSet(Cells(variant, cell[1], cell[2], currentRotation))
                changed == Changed(grid, s.grid)
            IN  /\ DOMAIN s.grid = Index
                /\ \A r \in Index : DOMAIN s.grid[r] = Index
                /\ changed = shape
                /\ Cardinality(changed) = 4
                /\ \A x \in changed : grid[x[1]][x[2]] = NULL /\ s.grid[x[1]][x[2]] = T

\* a second piece has just been placed next to a first one
C2_Witness ==
    /\ lastEvent.op = "placed"
    /\ currentStep = 2
    /\ Cardinality(Occupied(grid)) = 8

---------------------------------------------------------------------------
(* C3 *)

\* C3: in the rotation-aware components, for every reachable board, every anchor
\* and every rotation, the validator accepts exactly when each of the four cells
\* of the shape geometry lies on the board and is Empty there, and the validator
\* reads no cell outside the board.
C3_ValidatorAcceptsIffInsideAndEmpty ==
    variant \in RotationAware =>
        \A cell \in Board, rotation \in Rotation :
            LET cells == Cells(variant, cell[1], cell[2], rotation)
            IN  /\ Valid(variant, grid, cell[1], cell[2], rotation)
                       <=> \A x \in CellSet(cells) : x \in Board /\ grid[x[1]][x[2]] = NULL
                /\ everyReads(grid, cells) \subseteq Board

\* on the board shown, the validator of a rotation-aware component rejects one
\* anchor for a cell off the board, rejects another for an Occupied cell, and
\* accepts a third
C3_Witness ==
    /\ variant \in RotationAware
    /\ Occupied(grid) # {}
    /\ \E a \in Board :
           /\ ~Accepts(a[1], a[2])
           /\ CellSet(Cells(variant, a[1], a[2], currentRotation)) \subseteq Board
    /\ \E a \in Board :
           /\ ~Accepts(a[1], a[2])
           /\ ~(CellSet(Cells(variant, a[1], a[2], currentRotation)) \subseteq Board)
    /\ \E a \in Board : Accepts(a[1], a[2])

---------------------------------------------------------------------------
(* C4 *)

\* C4: an accepted placement at cursor k leaves as history the old snapshots
\* 0..k followed by the new board and nothing else, with the cursor at k+1,
\* the last index; a redo right after it changes nothing, and undo and redo
\* keep that history, so they show none of the snapshots that were dropped.
C4_PlaceTruncatesRedoHistory ==
    \A cell \in Board :
        Accepts(cell[1], cell[2]) =>
            LET s == Placed(cell[1], cell[2])
                k == currentStep
            IN  /\ Len(s.history) = k + 2
                /\ \A i \in 0 .. k : Snapshot(s.history, i) = Snapshot(history, i)
                /\ Snapshot(s.history, k + 1) = s.grid
                /\ s.currentStep = k + 1
                /\ s.currentStep = Len(s.history) - 1
                /\ redo(s) = s
                /\ undo(s).history = s.history
                /\ redo(undo(s)).history = s.history

\* a piece has just been placed at cursor 0 while two snapshots lay beyond the
\* cursor: the history now ends with the new board
C4_Witness ==
    /\ lastEvent.op = "placed"
    /\ lastEvent.step = 0
    /\ lastEvent.len = 3
    /\ Len(history) = 2
    /\ currentStep = 1

---------------------------------------------------------------------------
(* C5 *)

\* C5 as stated: in every reachable state, undo followed at once by redo shows
\* the board that was shown before the undo.
C5_Original ==
    redo(undo(State)).grid = grid

\* C5 as amended: in every reachable state whose cursor is above 0, undo
\* followed at once by redo shows the board that was shown before the undo
\* (and restores the cursor and the history with it).
C5_UndoRedoRoundTrip ==
    currentStep > 0 => redo(undo(State)) = State

\* a redo has just followed an undo that moved the cursor, and the board shown
\* holds a piece
C5_Witness ==
    /\ lastEvent.op = "redo"
    /\ lastEvent.follows = "undo"
    /\ currentStep > 0
    /\ Occupied(grid) # {}

---------------------------------------------------------------------------
(* C6 *)

\* C6: from every reachable state, reset gives an all-Empty board of the same
\* size, a history of exactly one all-Empty snapshot and the cursor 0, after
\* which undo and redo change nothing.
C6_ResetRestoresFreshSession ==
    LET s == reset(State)
    IN  /\ AllEmpty(s.grid)
        /\ Len(s.history) = 1
        /\ AllEmpty(Snapshot(s.history, 0))
        /\ s.currentStep = 0
        /\ undo(s) = s
        /\ redo(s) = s

\* reset has just run from the middle of a history of three snapshots
C6_Witness ==
    /\ lastEvent.op = "reset"
    /\ lastEvent.step = 1
    /\ lastEvent.len = 3
    /\ AllEmpty(grid)
    /\ Len(history) = 1

---------------------------------------------------------------------------
(* C7 *)

\* C7: in every reachable state the history is not empty and the cursor is one
\* of its indices: 0 <= currentStep <= length(history) - 1.
C7_CursorIsValidIndex ==
    /\ Len(history) >= 1
    /\ currentStep >= 0
    /\ currentStep <= Len(history) - 1

\* the cursor is strictly inside a history of three snapshots
C7_Witness ==
    /\ Len(history) = 3
    /\ currentStep = 1

---------------------------------------------------------------------------
(* C8 *)

\* C8: in every reachable state the displayed board is, cell for cell, the
\* history snapshot at the cursor.
C8_GridIsSnapshotAtCursor ==
    /\ (currentStep + 1) \in DOMAIN history
    /\ \A cell \in Board :
           grid[cell[1]][cell[2]] = history[currentStep + 1][cell[1]][cell[2]]

\* an undo has just moved the cursor back to a snapshot that holds a piece
C8_Witness ==
    /\ lastEvent.op = "undo"
    /\ currentStep = 1
    /\ Len(history) = 3
    /\ Occupied(grid) # {}

---------------------------------------------------------------------------
(* C9 *)

\* C9: undo at cursor 0 and redo at the last index change nothing: board,
\* history, cursor and rotation stay as they were.
C9_BoundaryUndoRedoAreNoops ==
    /\ currentStep = 0 => undo(State) = State
    /\ currentStep = Len(history) - 1 => redo(State) = State

\* a redo has just been ignored right after the single accepted placement of
\* the session
C9_Witness ==
    /\ lastEvent.op = "redoNoop"
    /\ lastEvent.follows = "placed"
    /\ Len(history) = 2
    /\ currentStep = 1

---------------------------------------------------------------------------
(* C10 *)

\* a fresh game: one all-Empty snapshot, cursor 0
Fresh == currentStep = 0 /\ Len(history) = 1 /\ AllEmpty(grid) /\ AllEmpty(Snapshot(history, 0))

\* the cells the documented scenario names
ScenarioCells == { <<0, 1>>, <<1, 1>>, <<1, 0>>, <<1, 2>> }

\* the offsets (r,c), (r+1,c), (r+1,c-1), (r+1,c+1) from an anchor
StemUp(row, col) == { <<row, col>>, <<row + 1, col>>, <<row + 1, col - 1>>, <<row + 1, col + 1>> }

\* the offsets (r+1,c), (r,c), (r,c-1), (r,c+1) from an anchor
StemDown(row, col) == { <<row + 1, col>>, <<row, col>>, <<row, col - 1>>, <<row, col + 1>> }

\* the components whose rotation 0 is the pattern of the documented scenario
ScenarioAtRotation0 == {"AppSecond", "Plain"}

\* place (0,1), place (0,1) again, undo, redo, from state s; cells is what the
\* first placement must occupy
ScenarioRuns(s, cells) ==
    LET s1 == placeTetromino(variant, s, 0, 1)
        s2 == placeTetromino(variant, s1, 0, 1)
        s3 == undo(s2)
        s4 == redo(s3)
    IN  /\ Valid(variant, s.grid, 0, 1, s.currentRotation)
        /\ Occupied(s1.grid) = cells
        /\ ~Valid(variant, s1.grid, 0, 1, s1.currentRotation)
        /\ s2 = s1
        /\ AllEmpty(s3.grid)
        /\ s3.currentStep = 0
        /\ s4.grid = s1.grid
        /\ Occupied(s4.grid) = cells

---------------------------------------------------------------------------
(* C11 *)

\* the offsets of a placement's cells from its anchor, in the order of the array
Offsets(v, row, col, rotation) ==
    [i \in DOMAIN Cells(v, row, col, rotation) |->
        << Cells(v, row, col, rotation)[i][1] - row, Cells(v, row, col, rotation)[i][2] - col >>]

\* C11: for every anchor and every rotation the shape geometry returns exactly
\* four pairwise distinct cells, each at an offset from the anchor that is the
\* same for every anchor (the geometry takes no board), and in the
\* rotation-aware components the four rotations give four pairwise different
\* sets of offsets.
C11_GeometryFourDistinctFixedOffsets ==
    /\ \A cell \in Board, rotation \in Rotation :
           /\ Len(Cells(variant, cell[1], cell[2], rotation)) = 4
           /\ Cardinality(CellSet(Cells(variant, cell[1], cell[2], rotation))) = 4
           /\ Offsets(variant, cell[1], cell[2], rotation) = Offsets(variant, 0, 0, rotation)
    /\ variant \in RotationAware =>
           \A r1 \in Rotation, r2 \in Rotation :
               r1 # r2 => CellSet(Offsets(variant, 0, 0, r1)) # CellSet(Offsets(variant, 0, 0, r2))

\* pieces of two different rotations lie on the board, each on the four cells
\* the geometry gives for its anchor
C11_Witness ==
    /\ variant \in RotationAware
    /\ lastEvent.op = "placed"
    /\ Cardinality(Occupied(grid)) = 8
    /\ \E r1 \in Rotation, r2 \in Rotation :
           /\ r1 # r2
           /\ Occupied(grid) = CellSet(Cells(variant, 0, 1, r1)) \cup CellSet(Cells(variant, 6, 6, r2))
---------------------------------------------------------------------------
(* C12 *)

\* C12: in every reachable state the Undo button is disabled exactly when the
\* cursor is on the first snapshot and the Redo button exactly when it is on
\* the last one; an enabled Undo moves the cursor down by exactly one, an
\* enabled Redo moves it up by exactly one, and the handler behind a disabled
\* button would change nothing.
C12_ControlsDisabledIffAtBoundary ==
    /\ undoDisabled(State) <=> (currentStep = 0)
    /\ redoDisabled(State) <=> (currentStep = Len(history) - 1)
    /\ ~undoDisabled(State) => undo(State).currentStep = currentStep - 1
    /\ ~redoDisabled(State) => redo(State).currentStep = currentStep + 1
    /\ undoDisabled(State) => undo(State) = State
    /\ redoDisabled(State) => redo(State) = State

\* an undo has just left the cursor strictly inside the history: both buttons
\* are enabled
C12_Witness ==
    /\ lastEvent.op = "undo"
    /\ Len(history) = 3
    /\ currentStep = 1
    /\ ~undoDisabled(State)
    /\ ~redoDisabled(State)
---------------------------------------------------------------------------
(* C13 *)

\* C13: in the rotation-aware components, in every reachable state and for
\* each rotation r of 0, 90, 180, 270, rotateShape(r) makes r the current
\* rotation and leaves the board, the history and the cursor as they were (the
\* last of two rotateShape calls wins); the placement that follows is
\* validated with r and, when accepted, marks the cells the geometry gives for r.
C13_RotateShapeSetsRotationOnly ==
    variant \in RotationAware =>
        \A r \in Rotation :
            LET s == rotateShape(State, r)
            IN  /\ s.currentRotation = r
                /\ s.grid = grid
                /\ s.history = history
                /\ s.currentStep = currentStep
                /\ \A r0 \in Rotation : rotateShape(rotateShape(State, r0), r) = s
                /\ \A cell \in Board :
                       LET p == placeTetromino(variant, s, cell[1], cell[2])
                       IN  IF Valid(variant, grid, cell[1], cell[2], r)
                           THEN /\ p.currentStep = currentStep + 1
                                /\ p.currentRotation = r
                                /\ Changed(grid, p.grid) = CellSet(Cells(variant, cell[1], cell[2], r))
                           ELSE p = s

\* a piece was placed at (6, 6) after rotateShape(90): it lies on the cells of
\* rotation 90, not on those of the initial rotation 0
C13_Witness ==
    /\ variant \in RotationAware
    /\ lastEvent.op = "placed"
    /\ currentRotation = 90
    /\ currentStep = 1
    /\ Occupied(grid) = CellSet(Cells(variant, 6, 6, 90))
    /\ Occupied(grid) # CellSet(Cells(variant, 6, 6, 0))
---------------------------------------------------------------------------
(* C15 *)

\* C15: in the gated component the gate starts locked, a step unlocks it only
\* if it is a submit made while the entered password is exactly "1618", and
\* once unlocked it is never locked again.
C15_GateOpensOnlyForSecret ==
    /\ ~isUnlocked
    /\ [][(~isUnlocked /\ isUnlocked') =>
              (password = Secret /\ password' = Secret /\ lastEvent'.op = "unlocked")]_vars
    /\ [][isUnlocked => isUnlocked']_vars

\* the gate has been unlocked by a submit of "1618" and the game went on after it
C15_Witness ==
    /\ isUnlocked
    /\ password = Secret
    /\ lastEvent.op = "placed"
    /\ currentStep = 2

---------------------------------------------------------------------------
(* C16 *)

\* the state of the 8x8 game
game == <<grid, history, currentStep, currentRotation>>

\* C16: in the gated component a submit with any password other than "1618"
\* leaves the gate locked, shows the error message and leaves the 8x8 game as
\* it was; and in every locked state, whatever was submitted before, entering
\* "1618" and submitting unlocks the gate and clears the error message.
C16_WrongPasswordAllowsReentry ==
    /\ [][(lastEvent'.op = "refused") =>
              (/\ password # Secret
               /\ ~isUnlocked'
               /\ error' = "Incorrect password"
               /\ password' = password
               /\ game' = game)]_vars
    /\ [](~isUnlocked =>
              LET a == handlePasswordSubmit(setPassword(AppState, Secret))
              IN  a.isUnlocked /\ a.error = "" /\ Len(Secret) <= maxLength)
    /\ [][(lastEvent'.op = "unlocked") => (isUnlocked' /\ error' = "" /\ game' = game)]_vars

\* a piece lies on the 8x8 board, a wrong password was refused, and the submit
\* of "1618" that followed has unlocked the gate and cleared the message
C16_Witness ==
    /\ lastEvent.op = "unlocked"
    /\ lastEvent.follows = "refused"
    /\ isUnlocked
    /\ error = ""
    /\ currentStep = 1
---------------------------------------------------------------------------
(* C17 *)

\* C17: in every reachable state undo, redo and rotateShape leave every
\* snapshot of the history as it is, and so does a rejected placement; an
\* accepted placement at cursor k leaves the snapshots 0 .. k cell for cell
\* unchanged, the board shown before the placement still being the one stored
\* at index k.
C17_SnapshotsAreImmutable ==
    /\ undo(State).history = history
    /\ redo(State).history = history
    /\ variant \in RotationAware => \A r \in Rotation : rotateShape(State, r).history = history
    /\ \A cell \in Board :
           LET p == Placed(cell[1], cell[2])
           IN  IF Accepts(cell[1], cell[2])
               THEN /\ \A i \in 0 .. currentStep :
                           Snapshot(p.history, i) = Snapshot(history, i)
                    /\ Snapshot(p.history, currentStep) = grid
                    /\ Snapshot(p.history, currentStep) # p.grid
               ELSE p.history = history

\* a second piece has been placed: the empty board and the board with the
\* first piece are still stored below the board that is shown
C17_Witness ==
    /\ lastEvent.op = "placed"
    /\ currentStep = 2
    /\ Len(history) = 3
    /\ AllEmpty(Snapshot(history, 0))
    /\ Cardinality(Occupied(Snapshot(history, 1))) = 4
    /\ Cardinality(Occupied(grid)) = 8
---------------------------------------------------------------------------
(* C18 *)

---------------------------------------------------------------------------
(* C19 *)

\* board g2 is board g1 with one more piece: the cells that differ are the
\* cells of a placement that component v accepts on g1
IsPlacement(v, g1, g2) ==
    \E cell \in Changed(g1, g2), r \in Rotation :
        /\ Valid(v, g1, cell[1], cell[2], r)
        /\ g2 = forEachMark(g1, Cells(v, cell[1], cell[2], r))

\* C19: in every reachable state the snapshot at history index i has exactly
\* 4 * i occupied cells: index 0 is the all-empty board and each snapshot is
\* the one before it plus the four cells of one valid placement; so the cursor
\* never exceeds size * size / 4 and the history never holds more than
\* size * size / 4 + 1 snapshots, and on a board that holds size * size / 4
\* pieces no further placement is accepted.
C19_SnapshotHoldsFourCellsPerStep ==
    /\ AllEmpty(Snapshot(history, 0))
    /\ \A i \in 0 .. (Len(history) - 1) :
           Cardinality(Occupied(Snapshot(history, i))) = 4 * i
    /\ \A i \in 0 .. (Len(history) - 2) :
           IsPlacement(variant, Snapshot(history, i), Snapshot(history, i + 1))
    /\ currentStep <= (size * size) \div 4
    /\ Len(history) <= ((size * size) \div 4) + 1
    /\ currentStep = (size * size) \div 4 =>
           \A cell \in Board : Placed(cell[1], cell[2]) = State

\* the sixteenth piece has been placed: the board is full and the history
\* holds seventeen snapshots
C19_Witness ==
    /\ lastEvent.op = "placed"
    /\ currentStep = (size * size) \div 4
    /\ Len(history) = ((size * size) \div 4) + 1
    /\ Occupied(grid) = Board
---------------------------------------------------------------------------
(* C20 *)

\* C20: in every reachable state, for every placement that is accepted, the
\* undo that follows it shows the board and the cursor of before the
\* placement while the history keeps the snapshot the placement appended, and
\* the redo that follows this undo shows the placed board again (the whole
\* state is that of after the placement).
C20_PlaceUndoRedo ==
    \A cell \in Board :
        Accepts(cell[1], cell[2]) =>
            LET p == Placed(cell[1], cell[2])
                u == undo(p)
                r == redo(u)
            IN  /\ u.grid = grid
                /\ u.currentStep = currentStep
                /\ u.history = p.history
                /\ Snapshot(u.history, currentStep + 1) = p.grid
                /\ p.grid # grid
                /\ r.grid = p.grid
                /\ r = p

\* a second piece was placed, undone and redone, one click after the other:
\* both pieces are shown again
C20_Witness ==
    /\ lastEvent.op = "redo"
    /\ lastEvent.chain = "place-undo-redo"
    /\ currentStep = 2
    /\ Len(history) = 3
    /\ grid = Snapshot(history, 2)
    /\ Cardinality(Occupied(grid)) = 8
---------------------------------------------------------------------------
(* C21 *)

\* the single pattern of the rotation-less component, anchored at (row, col)
Pattern(row, col) ==
    { <<row, col>>, <<row + 1, col>>, <<row + 1, col - 1>>, <<row + 1, col + 1>> }

\* C21: on every reachable board and for every anchor of the 8x8 board, the
\* hand-written validator of the rotation-less component accepts if and only
\* if the four cells of the pattern (r,c),(r+1,c),(r+1,c-1),(r+1,c+1) are all
\* inside the board and empty, which is when the validator of the
\* rotation-aware second component of App.tsx accepts at the rotation that
\* has this pattern; on acceptance its placeTetromino marks exactly these
\* four cells and leaves the same board, history and cursor as the
\* rotation-aware placeTetromino.
C21_PlainIsRotationAwareAtOnePattern ==
    \A cell \in Board :
        LET row == cell[1]
            col == cell[2]
            accepted == isValidPlacementPlain(grid, row, col)
            aware == [State EXCEPT !.currentRotation = 0]
            p == placeTetromino("Plain", State, row, col)
            q == placeTetromino("AppSecond", aware, row, col)
        IN  /\ CellSet(getTetrominoCellsAppSecond(row, col, 0)) = Pattern(row, col)
            /\ accepted <=> (\A x \in Pattern(row, col) :
                                 x \in Board /\ grid[x[1]][x[2]] = NULL)
            /\ accepted <=> isValidPlacementAppSecond(grid, row, col, 0)
            /\ accepted <=> (row < 7 /\ 0 < col /\ col < 7
                             /\ \A x \in Pattern(row, col) : At(grid, x[1], x[2]) = NULL)
            /\ IF accepted
               THEN /\ Changed(grid, p.grid) = Pattern(row, col)
                    /\ Occupied(p.grid) = Occupied(grid) \cup Pattern(row, col)
               ELSE p = State
            /\ p.grid = q.grid
            /\ p.history = q.history
            /\ p.currentStep = q.currentStep

\* the rotation-less component shows two pieces, each on the four cells of
\* the pattern at its anchor, the second one touching the bottom edge
C21_Witness ==
    /\ variant = "Plain"
    /\ lastEvent.op = "placed"
    /\ currentStep = 2
    /\ Occupied(grid) = Pattern(0, 1) \cup Pattern(6, 6)
---------------------------------------------------------------------------
(* C22 *)

\* n clicks on Undo, one after the other
RECURSIVE undoTimes(_, _)
undoTimes(s, n) == IF n = 0 THEN s ELSE undoTimes(undo(s), n - 1)

\* n clicks on Redo, one after the other
RECURSIVE redoTimes(_, _)
redoTimes(s, n) == IF n = 0 THEN s ELSE redoTimes(redo(s), n - 1)

\* C22: from every reachable state, with cursor k and L snapshots, each of k
\* clicks on Undo in a row moves the cursor down by one and shows the
\* snapshot there, the k-th shows the all-empty board at cursor 0 and further
\* clicks change nothing; each of L - 1 - k clicks on Redo in a row moves the
\* cursor up by one, the last shows the last snapshot at cursor L - 1 and
\* further clicks change nothing; the history is the same throughout, so
\* every snapshot i is shown after k undos and i redos.
C22_RepeatedUndoRedoReachBoundaries ==
    LET k == currentStep
        L == Len(history)
        start == undoTimes(State, k)
        end == redoTimes(State, L - 1 - k)
    IN  /\ \A j \in 0 .. k :
               LET s == undoTimes(State, j)
               IN  /\ s.currentStep = k - j
                   /\ s.grid = Snapshot(history, k - j)
                   /\ s.history = history
                   /\ undoDisabled(s) <=> (j = k)
        /\ start.currentStep = 0
        /\ AllEmpty(start.grid)
        /\ undo(start) = start
        /\ \A j \in 0 .. (L - 1 - k) :
               LET s == redoTimes(State, j)
               IN  /\ s.currentStep = k + j
                   /\ s.grid = Snapshot(history, k + j)
                   /\ s.history = history
                   /\ redoDisabled(s) <=> (j = L - 1 - k)
        /\ end.currentStep = L - 1
        /\ end.grid = Snapshot(history, L - 1)
        /\ redo(end) = end
        /\ \A i \in 0 .. (L - 1) :
               /\ IsBoard(Snapshot(history, i))
               /\ redoTimes(start, i).grid = Snapshot(history, i)

\* the board was filled with sixteen pieces and Undo was clicked until the
\* all-empty board is shown again; the full board is still the last snapshot
C22_Witness ==
    /\ lastEvent.op = "undo"
    /\ lastEvent.step = 1
    /\ currentStep = 0
    /\ AllEmpty(grid)
    /\ Len(history) = ((size * size) \div 4) + 1
    /\ Occupied(Snapshot(history, (size * size) \div 4)) = Board
==========================================================================
